---- MODULE Spec2Model ----
(***************************************************************************)
(* Model of src/solution.py: class SVM, a one-versus-all squared-hinge     *)
(* SVM trained by mini-batch sub-gradient descent.                         *)
(*                                                                         *)
(* Numbers.  The program computes in float64.  The model computes with     *)
(* exact rationals <<p, q>> (q > 0, lowest terms); NaN, which the program  *)
(* gets from 0/0 on numpy scalars, is the pair <<0, 0>>.                   *)
(* Matrices.  A numpy 2-d array is [shape |-> <<n, m>>, at |-> rows], rows *)
(* and columns numbered from 1; class ids and row offsets keep the         *)
(* program's numbering from 0.                                             *)
(* Exceptions.  A call that raises returns [err |-> <exception name>].     *)
(***************************************************************************)
EXTENDS Integers, Sequences, FiniteSets, TLC

VARIABLES
    eta, C, niter, batch_size,          \* hyperparameters, SVM.__init__
    x_train, y_train, x_test, y_test,   \* the arguments of fit
    num_features, m, w,                 \* attributes fit sets on the instance
    Y_train, Y_test,                    \* fit's one-versus-all label matrices
    train_losses, train_accs, test_losses, test_accs,
    iteration, ndx,                     \* epoch counter, minibatch generator offset
    pc,                                 \* where the instance is: idle, epoch, done, error
    prev,                               \* what the previous fit call left: its w, its result
    call, ret                           \* last direct method call and its result

vars == <<eta, C, niter, batch_size, x_train, y_train, x_test, y_test,
          num_features, m, w, Y_train, Y_test,
          train_losses, train_accs, test_losses, test_accs,
          iteration, ndx, pc, prev, call, ret>>

(***************************************************************************)
(* Bounds of the model.                                                    *)
(***************************************************************************)
MaxRows == 2       \* rows of a feature matrix drawn for fit and for the methods reading w
MaxLen == 3        \* rows of the arrays drawn for the methods reading nothing of the instance
MaxLabel == 1      \* largest class id drawn for a training label
MaxIter == 2       \* largest niter drawn
MaxBatch == 2      \* largest batch_size drawn for fit
MaxWrites == 1     \* writes of the caller to its array while a generator is live

(***************************************************************************)
(* Exact rational arithmetic.                                              *)
(***************************************************************************)
Abs(i) == IF i < 0 THEN -i ELSE i

RECURSIVE GCD(_, _)
GCD(a, b) == IF b = 0 THEN a ELSE GCD(b, a % b)

Rat(p, q) ==
    IF q = 0 THEN <<0, 0>>
    ELSE LET g == GCD(Abs(p), Abs(q))
             s == IF q < 0 THEN -1 ELSE 1
         IN  <<s * (p \div g), s * (q \div g)>>

RInt(i) == <<i, 1>>
Zero == <<0, 1>>
NaN == <<0, 0>>

RAdd(a, b) ==
    LET g == GCD(a[2], b[2])
    IN  Rat(a[1] * (b[2] \div g) + b[1] * (a[2] \div g), (a[2] \div g) * b[2])

RNeg(a) == <<-a[1], a[2]>>
RSub(a, b) == RAdd(a, RNeg(b))

RMul(a, b) ==
    LET g1 == GCD(Abs(a[1]), b[2])
        g2 == GCD(Abs(b[1]), a[2])
    IN  Rat((a[1] \div g1) * (b[1] \div g2), (a[2] \div g2) * (b[2] \div g1))

RLt(a, b) == a[1] * b[2] < b[1] * a[2]
RLe(a, b) == a[1] * b[2] <= b[1] * a[2]

\* np.maximum(0, a)
RMax0(a) == IF a[1] > 0 THEN a ELSE Zero

RECURSIVE RSum(_)
RSum(s) == IF s = <<>> THEN Zero ELSE RAdd(Head(s), RSum(Tail(s)))

(***************************************************************************)
(* numpy arrays.                                                           *)
(***************************************************************************)
\* the sequence f itself, its entries computed once
Evaluated(f) == IF f = <<>> THEN <<>> ELSE f

Mat(n, k, F(_, _)) ==
    [shape |-> <<n, k>>,
     at |-> Evaluated([i \in 1..n |-> Evaluated([j \in 1..k |-> F(i, j)])])]

NRows(A) == A.shape[1]
NCols(A) == A.shape[2]

\* an integer array read as float64
AsFloat(A) == Mat(NRows(A), NCols(A), LAMBDA i, j : RInt(A.at[i][j]))

\* A @ B
MatMul(A, B) ==
    Mat(NRows(A), NCols(B),
        LAMBDA i, j : RSum([k \in 1..NCols(A) |-> RMul(A.at[i][k], B.at[k][j])]))

\* np.transpose(A)
Transpose(A) == Mat(NCols(A), NRows(A), LAMBDA i, j : A.at[j][i])

\* A * B, elementwise
Hadamard(A, B) ==
    Mat(NRows(A), NCols(A), LAMBDA i, j : RMul(A.at[i][j], B.at[i][j]))

\* c * A for a scalar c
Scale(c, A) == Mat(NRows(A), NCols(A), LAMBDA i, j : RMul(c, A.at[i][j]))

MatAdd(A, B) ==
    Mat(NRows(A), NCols(A), LAMBDA i, j : RAdd(A.at[i][j], B.at[i][j]))

MatSub(A, B) ==
    Mat(NRows(A), NCols(A), LAMBDA i, j : RSub(A.at[i][j], B.at[i][j]))

\* np.zeros([n, k])
Zeros(n, k) == Mat(n, k, LAMBDA i, j : Zero)

\* all entries of A, row after row
RECURSIVE Flatten(_)
Flatten(rows) == IF rows = <<>> THEN <<>> ELSE Head(rows) \o Flatten(Tail(rows))

\* np.sum(A)
MatSum(A) == RSum(Flatten(A.at))

\* A[lo:hi] with 0 <= lo <= hi <= len(A)
Slice(A, lo, hi) == Mat(hi - lo, NCols(A), LAMBDA i, j : A.at[lo + i][j])

\* np.argmax of one row: the first position (from 0) holding the maximum
\* np.argmax gone wrong: the last position holding the maximum
RECURSIVE ArgMaxLast(_, _, _)
ArgMaxLast(row, j, best) ==
    IF j > Len(row) THEN best - 1
    ELSE IF RLe(row[best], row[j]) THEN ArgMaxLast(row, j + 1, j)
         ELSE ArgMaxLast(row, j + 1, best)

RECURSIVE ArgMaxFrom(_, _, _)
ArgMaxFrom(row, j, best) ==
    IF j > Len(row) THEN best - 1
    ELSE IF RLt(row[best], row[j]) THEN ArgMaxFrom(row, j + 1, j)
         ELSE ArgMaxFrom(row, j + 1, best)

ArgMaxRow(row) == ArgMaxFrom(row, 2, 1)

\* np.argmax(A, axis=1)
ArgMax(A) == [i \in 1..NRows(A) |-> ArgMaxRow(A.at[i])]

IsErr(v) == "err" \in DOMAIN v
IndexError == [err |-> "IndexError"]
ZeroDivisionError == [err |-> "ZeroDivisionError"]

(***************************************************************************)
(* SVM.make_one_versus_all_labels                                          *)
(***************************************************************************)
\* ans[i, k] = 1 accepts k in [-m, m): a negative k counts from the last column
ColumnOf(k, mm) == IF k < 0 THEN mm + k ELSE k

\* the encoding gone wrong: the matrix starts from zeros, not from -1
make_labels_from_zeros(y, mm) ==
    IF \E i \in 1..Len(y) : y[i] >= mm \/ y[i] < -mm
    THEN IndexError
    ELSE Mat(Len(y), mm,
             LAMBDA i, j : IF j - 1 = ColumnOf(y[i], mm) THEN 1 ELSE 0)

make_one_versus_all_labels(y, mm) ==
    IF \E i \in 1..Len(y) : y[i] >= mm \/ y[i] < -mm
    THEN IndexError
    ELSE Mat(Len(y), mm,
             LAMBDA i, j : IF j - 1 = ColumnOf(y[i], mm) THEN 1 ELSE -1)

(***************************************************************************)
(* SVM.compute_loss.  The value is hinge + coef * sigma_max(sigma_of)^2:   *)
(* np.linalg.norm(w, ord=2) of a 2-d array is its largest singular value,  *)
(* in general irrational, so the regularisation term is carried as its     *)
(* coefficient C/2 and the matrix whose spectral norm is squared.          *)
(***************************************************************************)
Two == RInt(2)
Square(a) == RMul(a, a)

\* 2 - (x @ w) * y
Margins(x, y, W) ==
    LET s == MatMul(x, W)
    IN  Mat(NRows(s), NCols(s),
            LAMBDA i, j : RSub(Two, RMul(s.at[i][j], RInt(y.at[i][j]))))

\* np.maximum(0, A)
Maximum0(A) == Mat(NRows(A), NCols(A), LAMBDA i, j : RMax0(A.at[i][j]))

compute_loss(x, y, W, CC) ==
    LET n == NRows(x)
        maxes == Maximum0(Margins(x, y, W))
        hinge_loss ==
            RMul(Rat(1, n),
                 MatSum(Mat(NRows(maxes), NCols(maxes),
                            LAMBDA i, j : Square(maxes.at[i][j]))))
    IN  IF n = 0 THEN ZeroDivisionError
        ELSE [hinge |-> hinge_loss, coef |-> RMul(CC, Rat(1, 2)), sigma_of |-> W]

\* sum of the squares of all entries of W: the squared Frobenius norm
FrobeniusSq(W) ==
    MatSum(Mat(NRows(W), NCols(W), LAMBDA i, j : Square(W.at[i][j])))

\* every 2x2 minor of W vanishes: W has rank at most 1, which is when its
\* largest singular value squared equals the sum of the squares of its entries
RankAtMostOne(W) ==
    \A i1, i2 \in 1..NRows(W) : \A j1, j2 \in 1..NCols(W) :
        RMul(W.at[i1][j1], W.at[i2][j2]) = RMul(W.at[i1][j2], W.at[i2][j1])

(***************************************************************************)
(* SVM.compute_gradient                                                    *)
(***************************************************************************)
\* the gradient gone wrong: the regularisation term C * w is left out
compute_gradient_no_reg(x, y, W, CC) ==
    LET n == NRows(x)
        maxes == Maximum0(Margins(x, y, W))
    IN  IF n = 0 THEN ZeroDivisionError
        ELSE Scale(Rat(-2, n),
                   MatMul(Transpose(x), Hadamard(AsFloat(y), maxes)))

compute_gradient(x, y, W, CC) ==
    LET n == NRows(x)
        a == Margins(x, y, W)
        maxes == Maximum0(a)
        regularization_grad == Scale(CC, W)
        ones_or_zeros ==
            Mat(NRows(a), NCols(a),
                LAMBDA i, j : IF a.at[i][j][1] > 0 THEN RInt(1) ELSE Zero)
        loss_grad ==
            Scale(Rat(-2, n),
                  MatMul(Transpose(x),
                         Hadamard(Hadamard(AsFloat(y), maxes), ones_or_zeros)))
    IN  IF n = 0 THEN ZeroDivisionError
        ELSE MatAdd(loss_grad, regularization_grad)

(***************************************************************************)
(* SVM.minibatch, a generator.  Calling it runs none of its body; each     *)
(* next() runs it up to the next yield (line 63) or to its end.  A chunk   *)
(* is a basic slice of a numpy array, a view of rows lo .. hi-1 of the     *)
(* caller's array, which reads whatever the array holds when it is read.   *)
(***************************************************************************)
Min(a, b) == IF a < b THEN a ELSE b

\* the contents of the pair sliced at offset at (lines 62-63)
Chunk(iterable1, iterable2, size, at) ==
    LET index2 == Min(at + size, NRows(iterable1))
    IN  <<Slice(iterable1, at, index2), Slice(iterable2, at, index2)>>

\* a generator just created: nothing run, nothing yielded
NewGenerator == [state |-> "created", ndx |-> 0, yielded |-> <<>>]

\* the pair of views yielded at offset at (lines 62-63)
ViewsAt(l, n, at) ==
    LET index2 == Min(at + n, l)
    IN  <<[base |-> 1, lo |-> at, hi |-> index2], [base |-> 2, lo |-> at, hi |-> index2]>>

\* the generator gone wrong: range(0, l - n + 1, n) drops a short last chunk
GenNextFullChunks(g, l, n) ==
    LET at == IF g.state = "created" THEN 0 ELSE g.ndx + n
    IN  IF at + n <= l
        THEN [state |-> "suspended", ndx |-> at,
              yielded |-> Append(g.yielded, ViewsAt(l, n, at))]
        ELSE [state |-> "exhausted", ndx |-> g.ndx, yielded |-> g.yielded]

\* next(g) on a generator not yet exhausted, over arrays of l rows: the loop
\* for ndx in range(0, l, n) advances once and yields, or ends (StopIteration)
GenNext(g, l, n) ==
    LET at == IF g.state = "created" THEN 0 ELSE g.ndx + n
    IN  IF at < l
        THEN [state |-> "suspended", ndx |-> at,
              yielded |-> Append(g.yielded, ViewsAt(l, n, at))]
        ELSE [state |-> "exhausted", ndx |-> g.ndx, yielded |-> g.yielded]

(***************************************************************************)
(* SVM.infer and SVM.compute_accuracy                                      *)
(***************************************************************************)
infer(x, W) ==
    LET y == MatMul(x, W)
        pred == ArgMax(y)
    IN  make_one_versus_all_labels(pred, NCols(y))

\* the accuracy gone wrong: divided by the number of columns, len(y[0])
compute_accuracy_per_column(y_inferred, y) ==
    LET true == ArgMax(AsFloat(y))
        pred == ArgMax(AsFloat(y_inferred))
        good == Cardinality({i \in 1..Len(pred) : pred[i] = true[i]})
    IN  Rat(good, NCols(y))

\* the accuracy gone wrong: the rows that differ are counted
compute_accuracy_of_misses(y_inferred, y) ==
    LET true == ArgMax(AsFloat(y))
        pred == ArgMax(AsFloat(y_inferred))
        good == Cardinality({i \in 1..Len(pred) : pred[i] # true[i]})
    IN  Rat(good, NRows(y))

compute_accuracy(y_inferred, y) ==
    LET true == ArgMax(AsFloat(y))
        pred == ArgMax(AsFloat(y_inferred))
        good == Cardinality({i \in 1..Len(pred) : pred[i] = true[i]})
    IN  Rat(good, NRows(y))

(***************************************************************************)
(* SVM.fit, one step at a time: entry (lines 96-105), one step per         *)
(* mini-batch (lines 109-111), the end of an epoch (lines 113-131), and    *)
(* the return (line 133).                                                  *)
(***************************************************************************)
Unset == [unset |-> TRUE]
IsSet(v) == "unset" \notin DOMAIN v

RECURSIVE SeqMax(_)
SeqMax(s) ==
    IF Len(s) = 1 THEN s[1]
    ELSE LET t == SeqMax(Tail(s)) IN IF s[1] > t THEN s[1] ELSE t

Histories == <<train_losses, train_accs, test_losses, test_accs>>

\* fit's entry gone wrong: w is created only when the instance has none
FitEnterKeepsW ==
    /\ pc = "idle" \/ (pc = "done" /\ ~IsSet(prev))
    /\ LET mm == SeqMax(y_train) + 1
           Yt == make_one_versus_all_labels(y_train, mm)
           Ys == make_one_versus_all_labels(y_test, mm)
       IN  /\ ~IsErr(Yt)
           /\ ~IsErr(Ys)
           /\ num_features' = NCols(x_train)
           /\ m' = mm
           /\ Y_train' = Yt
           /\ Y_test' = Ys
           /\ w' = IF IsSet(w) THEN w ELSE Zeros(NCols(x_train), mm)
    /\ train_losses' = <<>>
    /\ train_accs' = <<>>
    /\ test_losses' = <<>>
    /\ test_accs' = <<>>
    /\ iteration' = 0
    /\ ndx' = 0
    /\ pc' = "epoch"
    /\ prev' = IF pc = "done" THEN [w |-> w, ret |-> ret] ELSE prev
    /\ ret' = Unset
    /\ UNCHANGED <<eta, C, niter, batch_size, x_train, y_train, x_test, y_test, call>>

\* lines 96-105, when neither encoding raises
FitEnter ==
    /\ pc = "idle" \/ (pc = "done" /\ ~IsSet(prev))
    /\ LET mm == SeqMax(y_train) + 1
           Yt == make_one_versus_all_labels(y_train, mm)
           Ys == make_one_versus_all_labels(y_test, mm)
       IN  /\ ~IsErr(Yt)
           /\ ~IsErr(Ys)
           /\ num_features' = NCols(x_train)
           /\ m' = mm
           /\ Y_train' = Yt
           /\ Y_test' = Ys
           /\ w' = Zeros(NCols(x_train), mm)
    /\ train_losses' = <<>>
    /\ train_accs' = <<>>
    /\ test_losses' = <<>>
    /\ test_accs' = <<>>
    /\ iteration' = 0
    /\ ndx' = 0
    /\ pc' = "epoch"
    /\ prev' = IF pc = "done" THEN [w |-> w, ret |-> ret] ELSE prev
    /\ ret' = Unset
    /\ UNCHANGED <<eta, C, niter, batch_size, x_train, y_train, x_test, y_test, call>>

\* lines 96-99, when a label has no column: the encoding raises before w is reset
FitEnterRaises ==
    /\ pc = "idle" \/ (pc = "done" /\ ~IsSet(prev))
    /\ LET mm == SeqMax(y_train) + 1
       IN  /\ \/ IsErr(make_one_versus_all_labels(y_train, mm))
              \/ IsErr(make_one_versus_all_labels(y_test, mm))
           /\ num_features' = NCols(x_train)
           /\ m' = mm
    /\ pc' = "error"
    /\ ret' = IndexError
    /\ UNCHANGED <<eta, C, niter, batch_size, x_train, y_train, x_test, y_test,
                   w, Y_train, Y_test, train_losses, train_accs, test_losses,
                   test_accs, iteration, ndx, prev, call>>

\* the inner loop gone wrong: the recording of lines 113-131 is indented into it
BatchStepRecords ==
    /\ pc = "epoch"
    /\ iteration < niter
    /\ ndx < NRows(x_train)
    /\ LET b == Chunk(x_train, Y_train, batch_size, ndx)
           grad == compute_gradient(b[1], b[2], w, C)
       IN  w' = MatSub(w, Scale(eta, grad))
    /\ ndx' = ndx + batch_size
    /\ train_losses' = Append(train_losses, compute_loss(x_train, Y_train, w', C))
    /\ train_accs' = Append(train_accs, compute_accuracy(infer(x_train, w'), Y_train))
    /\ test_losses' = Append(test_losses, compute_loss(x_test, Y_test, w', C))
    /\ test_accs' = Append(test_accs, compute_accuracy(infer(x_test, w'), Y_test))
    /\ UNCHANGED <<eta, C, niter, batch_size, x_train, y_train, x_test, y_test,
                   num_features, m, Y_train, Y_test, iteration, pc, prev, call, ret>>

\* lines 109-111: the next mini-batch of the epoch
BatchStep ==
    /\ pc = "epoch"
    /\ iteration < niter
    /\ ndx < NRows(x_train)
    /\ LET b == Chunk(x_train, Y_train, batch_size, ndx)
           grad == compute_gradient(b[1], b[2], w, C)
       IN  w' = MatSub(w, Scale(eta, grad))
    /\ ndx' = ndx + batch_size
    /\ UNCHANGED <<eta, C, niter, batch_size, x_train, y_train, x_test, y_test,
                   num_features, m, Y_train, Y_test, train_losses, train_accs,
                   test_losses, test_accs, iteration, pc, prev, call, ret>>

\* lines 113-131: the generator is exhausted; measure and record
EpochEnd ==
    /\ pc = "epoch"
    /\ iteration < niter
    /\ ndx >= NRows(x_train)
    /\ LET train_loss == compute_loss(x_train, Y_train, w, C)
           train_accuracy == compute_accuracy(infer(x_train, w), Y_train)
           test_loss == compute_loss(x_test, Y_test, w, C)
           test_accuracy == compute_accuracy(infer(x_test, w), Y_test)
       IN  /\ train_losses' = Append(train_losses, train_loss)
           /\ train_accs' = Append(train_accs, train_accuracy)
           /\ test_losses' = Append(test_losses, test_loss)
           /\ test_accs' = Append(test_accs, test_accuracy)
    /\ iteration' = iteration + 1
    /\ ndx' = 0
    /\ UNCHANGED <<eta, C, niter, batch_size, x_train, y_train, x_test, y_test,
                   num_features, m, w, Y_train, Y_test, pc, prev, call, ret>>

\* line 133
FitReturn ==
    /\ pc = "epoch"
    /\ iteration = niter
    /\ pc' = "done"
    /\ ret' = Histories
    /\ UNCHANGED <<eta, C, niter, batch_size, x_train, y_train, x_test, y_test,
                   num_features, m, w, Y_train, Y_test, train_losses, train_accs,
                   test_losses, test_accs, iteration, ndx, prev, call>>

(***************************************************************************)
(* The inputs drawn.                                                       *)
(***************************************************************************)
\* a feature matrix from a sequence of integer rows of k columns
MatOfRows(rows, k) == Mat(Len(rows), k, LAMBDA i, j : RInt(rows[i][j]))

\* feature rows, the bias column last
XRows == {<<-1, 1>>, <<0, 1>>, <<2, 1>>}
XMats(n) == {MatOfRows(rows, 2) : rows \in [1..n -> XRows]}

Etas == {Rat(1, 4)}
Cs == {Zero, RInt(2)}

\* the end-to-end scenario of the specification
ToyX == MatOfRows(<<<<1, 0, 1>>, <<0, 1, 1>>, <<-1, 0, 1>>, <<0, -1, 1>>>>, 3)
ToyY == <<0, 1, 0, 1>>
ToyHyper == [eta |-> Rat(1, 100), C |-> Rat(1, 10), niter |-> 50, batch_size |-> 4]
ToyNiter == ToyHyper.niter

IsToy ==
    /\ x_train = ToyX /\ y_train = ToyY
    /\ eta = ToyHyper.eta /\ C = ToyHyper.C
    /\ niter = ToyHyper.niter /\ batch_size = ToyHyper.batch_size

\* the scenario names no test set: the training set stands in for it
InitToy ==
    /\ eta = ToyHyper.eta /\ C = ToyHyper.C
    /\ niter = ToyHyper.niter /\ batch_size = ToyHyper.batch_size
    /\ x_train = ToyX /\ y_train = ToyY
    /\ x_test = ToyX /\ y_test = ToyY

\* feature rows and (C, niter) pairs drawn for fit
FitRows == {<<-1, 1>>, <<2, 1>>}
FitMats(n) == {MatOfRows(rows, 2) : rows \in [1..n -> FitRows]}
Hypers == {[C |-> Zero, niter |-> 1], [C |-> RInt(2), niter |-> MaxIter]}

\* fit needs at least one training and one test row (an empty set raises at
\* line 97 or line 35) and training labels from 0
InitDrawn ==
    /\ eta \in Etas
    /\ \E h \in Hypers : C = h.C /\ niter = h.niter
    /\ batch_size \in 1..MaxBatch
    /\ \E n \in 1..MaxRows :
          /\ x_train \in FitMats(n)
          /\ y_train \in [1..n -> 0..MaxLabel]
    /\ x_test = MatOfRows(<<<<2, 1>>>>, 2)
    /\ y_test \in {<<0>>, <<MaxLabel>>}

\* an instance just constructed: fit has set nothing yet
Fresh ==
    /\ num_features = Unset /\ m = Unset /\ w = Unset
    /\ Y_train = Unset /\ Y_test = Unset
    /\ train_losses = <<>> /\ train_accs = <<>>
    /\ test_losses = <<>> /\ test_accs = <<>>
    /\ iteration = 0 /\ ndx = 0
    /\ pc = "idle" /\ prev = Unset
    /\ call = [op |-> "fit"] /\ ret = Unset

Init == (InitToy \/ InitDrawn) /\ Fresh

Next == FitEnter \/ FitEnterRaises \/ BatchStep \/ EpochEnd \/ FitReturn

Spec == Init /\ [][Next]_vars

(***************************************************************************)
(* The methods called directly.  SpecStatic: the three that read nothing   *)
(* of the instance.  SpecWeights: the three that read self.w (and self.C), *)
(* on an instance whose w was assigned beforehand (lines 170-174).  A      *)
(* method's result depends on its arguments and on w and C alone, so each  *)
(* behaviour makes one call.                                               *)
(***************************************************************************)
LabelVectors(n, lo, hi) == [1..n -> lo..hi]

\* the one-versus-all matrices of mm columns with n rows
OneVsAll(n, mm) ==
    {make_one_versus_all_labels(y, mm) : y \in LabelVectors(n, 0, mm - 1)}

CallMakeLabels ==
    /\ call.op = "none"
    /\ \E n \in 0..MaxLen, mm \in 0..(MaxLabel + 1) :
          \E y \in LabelVectors(n, -(MaxLabel + 2), MaxLabel + 2) :
             /\ call' = [op |-> "make_one_versus_all_labels", y |-> y, m |-> mm]
             /\ ret' = make_one_versus_all_labels(y, mm)
    /\ UNCHANGED <<eta, C, niter, batch_size, x_train, y_train, x_test, y_test,
                   num_features, m, w, Y_train, Y_test, train_losses, train_accs,
                   test_losses, test_accs, iteration, ndx, pc, prev>>

\* the second iterable drawn with n rows of X: labels 0, 1, .. in turn
TurnLabels(n) ==
    make_one_versus_all_labels([i \in 1..n |-> (i - 1) % (MaxLabel + 1)], MaxLabel + 1)

\* g = svm.minibatch(X, Y, size): the generator object, its body not yet run
CallMinibatch ==
    /\ call.op = "none"
    /\ \E n \in 0..MaxLen, size \in 1..(MaxLen + 1) :
          \E X \in XMats(n) :
             call' = [op |-> "minibatch", iterable1 |-> X, iterable2 |-> TurnLabels(n),
                      size |-> size, writes |-> 0]
    /\ ret' = NewGenerator
    /\ UNCHANGED <<eta, C, niter, batch_size, x_train, y_train, x_test, y_test,
                   num_features, m, w, Y_train, Y_test, train_losses, train_accs,
                   test_losses, test_accs, iteration, ndx, pc, prev>>

\* next(g): the body runs to its next yield or to its end
NextChunk ==
    /\ call.op = "minibatch"
    /\ ret.state # "exhausted"
    /\ ret' = GenNext(ret, NRows(call.iterable1), call.size)
    /\ UNCHANGED <<eta, C, niter, batch_size, x_train, y_train, x_test, y_test,
                   num_features, m, w, Y_train, Y_test, train_losses, train_accs,
                   test_losses, test_accs, iteration, ndx, pc, prev, call>>

\* the caller, between two next(g), writes a row of its array: X[i] = [9, 9]
WrittenRow == <<RInt(9), RInt(9)>>

CallerWritesRow ==
    /\ call.op = "minibatch"
    /\ call.writes < MaxWrites
    /\ \E i \in 1..NRows(call.iterable1) :
          call' = [call EXCEPT !.iterable1.at[i] = WrittenRow,
                               !.writes = call.writes + 1]
    /\ UNCHANGED <<eta, C, niter, batch_size, x_train, y_train, x_test, y_test,
                   num_features, m, w, Y_train, Y_test, train_losses, train_accs,
                   test_losses, test_accs, iteration, ndx, pc, prev, ret>>

\* what a yielded view reads now
Contents(view) ==
    Slice(IF view.base = 1 THEN call.iterable1 ELSE call.iterable2, view.lo, view.hi)

CallComputeAccuracy ==
    /\ call.op = "none"
    /\ \E n \in 0..MaxLen, mm \in 1..(MaxLabel + 1) :
          \E P \in OneVsAll(n, mm), T \in OneVsAll(n, mm) :
             /\ call' = [op |-> "compute_accuracy", y_inferred |-> P, y |-> T]
             /\ ret' = compute_accuracy(P, T)
    /\ UNCHANGED <<eta, C, niter, batch_size, x_train, y_train, x_test, y_test,
                   num_features, m, w, Y_train, Y_test, train_losses, train_accs,
                   test_losses, test_accs, iteration, ndx, pc, prev>>

CallComputeLoss ==
    /\ call.op = "none"
    /\ \E n \in 0..MaxRows :
          \E X \in XMats(n), Y \in OneVsAll(n, NCols(w)) :
             /\ call' = [op |-> "compute_loss", x |-> X, y |-> Y]
             /\ ret' = compute_loss(X, Y, w, C)
    /\ UNCHANGED <<eta, C, niter, batch_size, x_train, y_train, x_test, y_test,
                   num_features, m, w, Y_train, Y_test, train_losses, train_accs,
                   test_losses, test_accs, iteration, ndx, pc, prev>>

CallComputeGradient ==
    /\ call.op = "none"
    /\ \E n \in 0..MaxRows :
          \E X \in XMats(n), Y \in OneVsAll(n, NCols(w)) :
             /\ call' = [op |-> "compute_gradient", x |-> X, y |-> Y]
             /\ ret' = compute_gradient(X, Y, w, C)
    /\ UNCHANGED <<eta, C, niter, batch_size, x_train, y_train, x_test, y_test,
                   num_features, m, w, Y_train, Y_test, train_losses, train_accs,
                   test_losses, test_accs, iteration, ndx, pc, prev>>

CallInfer ==
    /\ call.op = "none"
    /\ \E n \in 0..MaxRows :
          \E X \in XMats(n) :
             /\ call' = [op |-> "infer", x |-> X]
             /\ ret' = infer(X, w)
    /\ UNCHANGED <<eta, C, niter, batch_size, x_train, y_train, x_test, y_test,
                   num_features, m, w, Y_train, Y_test, train_losses, train_accs,
                   test_losses, test_accs, iteration, ndx, pc, prev>>

\* hyperparameters and fit arguments that the direct calls never read
Parked ==
    /\ eta \in Etas /\ niter = 1 /\ batch_size = 1
    /\ x_train = Unset /\ y_train = Unset /\ x_test = Unset /\ y_test = Unset
    /\ num_features = Unset /\ m = Unset
    /\ Y_train = Unset /\ Y_test = Unset
    /\ train_losses = <<>> /\ train_accs = <<>>
    /\ test_losses = <<>> /\ test_accs = <<>>
    /\ iteration = 0 /\ ndx = 0
    /\ pc = "idle" /\ prev = Unset
    /\ call = [op |-> "none"] /\ ret = Unset

InitStatic == Parked /\ C = Zero /\ w = Unset

NextStatic ==
    CallMakeLabels \/ CallMinibatch \/ NextChunk \/ CallerWritesRow \/ CallComputeAccuracy

SpecStatic == InitStatic /\ [][NextStatic]_vars

\* weight matrices of 2 rows (one feature and the bias) and k columns
WVals == {0, 1}
WMats(k) == {MatOfRows(rows, k) : rows \in [1..2 -> [1..k -> WVals]]}

InitWeights ==
    /\ Parked
    /\ C \in Cs
    /\ \E k \in 1..(MaxLabel + 1) : w \in WMats(k)

NextWeights == CallComputeLoss \/ CallComputeGradient \/ CallInfer

SpecWeights == InitWeights /\ [][NextWeights]_vars

(***************************************************************************)
(* Properties.                                                             *)
(***************************************************************************)
One == RInt(1)

\* r is a number in [0, 1]
InUnit(r) == r[2] > 0 /\ 0 <= r[1] /\ r[1] <= r[2]

\* rows lo+1 .. hi of A, read off entry by entry
RowsOf(A, lo, hi) == [i \in 1..(hi - lo) |-> A.at[lo + i]]

\* the column (from 0) of the +1 of a one-versus-all row
PlusColumn(row) == CHOOSE j \in 0..(Len(row) - 1) : row[j + 1] = 1

\* C1 as stated: fit on the four-point scenario (eta 0.01, C 0.1, niter 50,
\* batch_size 4) returns a train-accuracy history whose 50th, last, entry is 1.0.
C1_LastTrainAccuracyIsOne ==
    (IsToy /\ pc = "done") => (Len(ret[2]) = ToyNiter /\ ret[2][ToyNiter] = One)

\* C1 amended: on that scenario the train-accuracy history fit returns has 50
\* entries and its last entry is 0.5.  The two classes are not linearly
\* separable, every gradient is zero, w stays zero and every tie goes to class 0.
C1_LastTrainAccuracyIsHalf ==
    (IsToy /\ pc = "done") =>
        (Len(ret[2]) = ToyNiter /\ ret[2][ToyNiter] = Rat(1, 2))

C1_Witness ==
    /\ IsToy /\ pc = "done"
    /\ Len(ret[2]) = ToyNiter
    /\ w = Zeros(3, 2)

\* C2: during a fit call the four histories are append-only and of equal
\* length, the number of completed epochs; each gets exactly one value per
\* epoch, after the epoch's last mini-batch; at the return each has length niter.
C2_Histories ==
    /\ [](pc = "epoch" => \A k \in 1..4 : Len(Histories[k]) = iteration)
    /\ [](pc = "done" => \A k \in 1..4 : Len(ret[k]) = niter)
    /\ [][pc = "epoch" =>
            \/ Histories' = Histories
            \/ /\ \A k \in 1..4 :
                    /\ Len(Histories'[k]) = Len(Histories[k]) + 1
                    /\ SubSeq(Histories'[k], 1, Len(Histories[k])) = Histories[k]
               /\ ndx >= NRows(x_train)
               /\ iteration' = iteration + 1
               /\ w' = w]_vars

C2_Witness ==
    /\ pc = "done"
    /\ niter = MaxIter
    /\ \A k \in 1..4 : Len(ret[k]) = MaxIter
    /\ NRows(x_train) > batch_size

\* C3: minibatch(X, Y, size) on n rows and a positive size yields ceil(n/size)
\* pairs of contiguous chunks in row order, each of size rows but possibly the
\* last, both chunks of a pair over the same rows, and the chunks concatenated
\* are X and Y.  The pairs come one per next(); the k-th is fixed whatever the
\* caller writes in between, and once the generator is exhausted all are there.
C3_Minibatch ==
    call.op = "minibatch" =>
        LET X == call.iterable1
            Y == call.iterable2
            size == call.size
            n == NRows(X)
            count == (n + size - 1) \div size
            got == ret.yielded
        IN  /\ Len(got) <= count
            /\ (ret.state = "created") => (Len(got) = 0)
            /\ (ret.state = "exhausted") => (Len(got) = count)
            /\ \A k \in 1..Len(got) :
                  LET lo == (k - 1) * size
                      hi == IF k < count THEN k * size ELSE n
                  IN  /\ hi - lo >= 1
                      /\ (k < count) => (hi - lo = size)
                      /\ Contents(got[k][1]).shape = <<hi - lo, NCols(X)>>
                      /\ Contents(got[k][2]).shape = <<hi - lo, NCols(Y)>>
                      /\ Contents(got[k][1]).at = RowsOf(X, lo, hi)
                      /\ Contents(got[k][2]).at = RowsOf(Y, lo, hi)
            /\ (ret.state = "exhausted") =>
                  /\ Flatten([k \in 1..Len(got) |-> Contents(got[k][1]).at]) = X.at
                  /\ Flatten([k \in 1..Len(got) |-> Contents(got[k][2]).at]) = Y.at

\* three rows in chunks of two, the caller having written a row on the way
C3_Witness ==
    /\ call.op = "minibatch"
    /\ NRows(call.iterable1) = 3
    /\ call.size = 2
    /\ call.writes = 1
    /\ ret.state = "exhausted"
    /\ Len(ret.yielded) = 2
    /\ NRows(Contents(ret.yielded[2][1])) = 1
    /\ Contents(ret.yielded[2][1]).at = <<WrittenRow>>

\* C4: for labels all in [0, m), make_one_versus_all_labels(y, m) is an n-by-m
\* matrix whose row i has one +1, at column y[i], -1 elsewhere, and whose row
\* argmax is y[i].
C4_OneVersusAll ==
    (/\ call.op = "make_one_versus_all_labels"
     /\ \A i \in 1..Len(call.y) : 0 <= call.y[i] /\ call.y[i] < call.m) =>
        /\ ~IsErr(ret)
        /\ ret.shape = <<Len(call.y), call.m>>
        /\ \A i \in 1..Len(call.y) :
              /\ \A j \in 1..call.m :
                    ret.at[i][j] = IF j - 1 = call.y[i] THEN 1 ELSE -1
              /\ ArgMaxRow([j \in 1..call.m |-> RInt(ret.at[i][j])]) = call.y[i]

C4_Witness ==
    /\ call.op = "make_one_versus_all_labels"
    /\ call.y = <<1, 0, 1>>
    /\ call.m = 2
    /\ ~IsErr(ret)

\* C5 as stated: make_one_versus_all_labels(y, m) fails, returning no matrix,
\* whenever some y[i] is outside [0, m), be it y[i] >= m or y[i] negative.
C5_InvalidLabelFails ==
    (/\ call.op = "make_one_versus_all_labels"
     /\ \E i \in 1..Len(call.y) : call.y[i] < 0 \/ call.y[i] >= call.m) =>
        IsErr(ret)

\* C6 as stated: compute_loss(X, Y) is (1/n) * sum of max(0, 2 - (X.W)*Y)^2 over
\* all entries, plus (C/2) * the sum of the squares of all entries of W.  The
\* value returned is hinge + coef * sigma_max(W)^2, and sigma_max(W)^2 is the sum
\* of the squares exactly when W has rank at most 1.
C6_LossUsesFrobenius ==
    (call.op = "compute_loss" /\ ~IsErr(ret)) =>
        LET X == call.x
            Y == call.y
            n == NRows(X)
            score(i, j) == RSum([k \in 1..NCols(X) |-> RMul(X.at[i][k], w.at[k][j])])
            term(i, j) == Square(RMax0(RSub(Two, RMul(score(i, j), RInt(Y.at[i][j])))))
            sum == RSum([e \in 1..(n * NCols(w)) |->
                           term(((e - 1) \div NCols(w)) + 1, ((e - 1) % NCols(w)) + 1)])
        IN  /\ ret.hinge = RMul(Rat(1, n), sum)
            /\ ret.coef = RMul(C, Rat(1, 2))
            /\ (ret.coef = Zero \/ RankAtMostOne(ret.sigma_of))

\* C7 as stated: for one-versus-all Y_pred and Y_true of the same number of
\* rows, compute_accuracy is a value in [0, 1], the number of rows whose class
\* ids agree over the number of rows.
C7_AccuracyIsFraction ==
    call.op = "compute_accuracy" =>
        LET P == call.y_inferred
            T == call.y
            agree == Cardinality({i \in 1..NRows(T) :
                                    PlusColumn(P.at[i]) = PlusColumn(T.at[i])})
        IN  /\ InUnit(ret)
            /\ ret[1] * NRows(T) = agree * ret[2]

\* C7 amended: the same for matrices of at least one row (with no rows the
\* value is NaN); and for Y_pred of [0,1,1], Y_true of [0,1,0], m = 2 it is 2/3.
C7_AccuracyIsFractionOfRows ==
    (call.op = "compute_accuracy" /\ NRows(call.y) >= 1) =>
        LET P == call.y_inferred
            T == call.y
            agree == Cardinality({i \in 1..NRows(T) :
                                    PlusColumn(P.at[i]) = PlusColumn(T.at[i])})
        IN  /\ InUnit(ret)
            /\ ret[1] * NRows(T) = agree * ret[2]
            /\ (/\ P = make_one_versus_all_labels(<<0, 1, 1>>, 2)
                /\ T = make_one_versus_all_labels(<<0, 1, 0>>, 2)) => ret = Rat(2, 3)

C7_Witness ==
    /\ call.op = "compute_accuracy"
    /\ call.y_inferred = make_one_versus_all_labels(<<0, 1, 1>>, 2)
    /\ call.y = make_one_versus_all_labels(<<0, 1, 0>>, 2)
    /\ ret = Rat(2, 3)

\* the update the specification writes for the mini-batch of rows lo+1 .. hi:
\* W - eta * (-(2/n_b) * X_b^T (Y_b * max(0, 2 - (X_b.W) * Y_b)) + C * W)
StatedUpdate(W, lo, hi) ==
    LET n_b == hi - lo
        score(i, j) ==
            RSum([k \in 1..NCols(x_train) |-> RMul(x_train.at[lo + i][k], W.at[k][j])])
        pull(i, j) ==
            RMul(RInt(Y_train.at[lo + i][j]),
                 RMax0(RSub(Two, RMul(score(i, j), RInt(Y_train.at[lo + i][j])))))
        gradient(k, j) ==
            RAdd(RMul(Rat(-2, n_b),
                      RSum([i \in 1..n_b |-> RMul(x_train.at[lo + i][k], pull(i, j))])),
                 RMul(C, W.at[k][j]))
    IN  Mat(NRows(W), NCols(W),
            LAMBDA k, j : RSub(W.at[k][j], RMul(eta, gradient(k, j))))

\* C8: within an epoch the mini-batches are taken in row order and each updates
\* W once, by the stated update from the W the previous mini-batch left; the
\* epoch's four metrics are computed after the last mini-batch, from that W, on
\* the full train and test sets.
C8_SequentialUpdates ==
    [][(pc = "epoch" /\ pc' = "epoch") =>
          IF ndx < NRows(x_train)
          THEN /\ w' = StatedUpdate(w, ndx, Min(ndx + batch_size, NRows(x_train)))
               /\ ndx' = ndx + batch_size
               /\ Histories' = Histories
          ELSE /\ w' = w
               /\ ndx' = 0
               /\ train_losses' = Append(train_losses, compute_loss(x_train, Y_train, w, C))
               /\ train_accs' =
                     Append(train_accs, compute_accuracy(infer(x_train, w), Y_train))
               /\ test_losses' = Append(test_losses, compute_loss(x_test, Y_test, w, C))
               /\ test_accs' =
                     Append(test_accs, compute_accuracy(infer(x_test, w), Y_test))]_vars

\* a second mini-batch of a later epoch is about to start from a non-zero W
C8_Witness ==
    /\ pc = "epoch"
    /\ iteration >= 1
    /\ 0 < ndx /\ ndx < NRows(x_train)
    /\ C # Zero
    /\ w # Zeros(NRows(w), NCols(w))

\* C9: infer(X) is a one-versus-all matrix of as many columns as W whose row i
\* has its +1 at the lowest column attaining the maximum of row i of X.W; when a
\* row's scores all tie (W all zeros) the class is 0.
C9_InferLowestArgmax ==
    call.op = "infer" =>
        LET X == call.x
            score(i, j) == RSum([k \in 1..NCols(X) |-> RMul(X.at[i][k], w.at[k][j])])
        IN  /\ ~IsErr(ret)
            /\ ret.shape = <<NRows(X), NCols(w)>>
            /\ \A i \in 1..NRows(X) :
                  \E j \in 1..NCols(w) :
                     /\ \A l \in 1..NCols(w) : RLe(score(i, l), score(i, j))
                     /\ \A l \in 1..(j - 1) : RLt(score(i, l), score(i, j))
                     /\ \A l \in 1..NCols(w) : ret.at[i][l] = IF l = j THEN 1 ELSE -1
            /\ (w = Zeros(NRows(w), NCols(w))) =>
                  \A i \in 1..NRows(X) : ret.at[i][1] = 1

C9_Witness ==
    /\ call.op = "infer"
    /\ NCols(w) = 2
    /\ w = Zeros(2, 2)
    /\ NRows(call.x) = 2
    /\ ret.at[1][1] = 1 /\ ret.at[2][1] = 1

\* C10: every fit call resets W to zeros of shape (num_features,
\* max(y_train)+1) before its first update, so a second call with the same
\* arguments, which finds the W the first call left, returns the same histories
\* and ends with the same W as the first, which found none.
C10_FitResetsW ==
    /\ (pc = "epoch" /\ iteration = 0 /\ ndx = 0) =>
          w = Zeros(NCols(x_train), SeqMax(y_train) + 1)
    /\ (pc = "done" /\ IsSet(prev)) => (ret = prev.ret /\ w = prev.w)

C10_Witness ==
    /\ pc = "done"
    /\ IsSet(prev)
    /\ niter = MaxIter
    /\ prev.w # Zeros(NRows(w), NCols(w))
    /\ ret = prev.ret

====
